---- MODULE Spec2Model ----
(***************************************************************************)
(* Model of seesus/seesus.py: the SDG matcher (id_sus), the dimension      *)
(* aggregator (cat_sus), the labelers (label_sdg, label_target) and the    *)
(* SeeSus facade with its catalog utilities (show_syntax, edit_syntax).    *)
(*                                                                         *)
(* Representation.                                                         *)
(*  - A text is a sequence of characters; a non-string argument is a value *)
(*    whose type tag is not "str".                                         *)
(*  - A keyword pattern is a regular expression of the form                *)
(*    lit1|lit2|...: a sequence of literal alternatives.  re.search with   *)
(*    re.IGNORECASE succeeds iff some alternative occurs in the text after *)
(*    case folding of both.                                                *)
(*  - An SDG id is a sequence of tokens, "_" being the separator, so that  *)
(*    sdg_id.split("_")[0] is computed, not assumed.                       *)
(*  - list(set(xs)) is a duplicate-free list in an order Python does not   *)
(*    specify: every order is a possible outcome (list_set).  A list that  *)
(*    is handed back to the caller is recorded up to its order, as the bag *)
(*    of its elements (Unordered); a list that is passed on to label_sdg,  *)
(*    label_target or cat_sus is passed in each of its possible orders.    *)
(***************************************************************************)
EXTENDS Integers, Sequences, FiniteSets, TLC

VARIABLES SDG_keys, call, err, ret, out

vars == <<SDG_keys, call, err, ret, out>>

\* ------------------------------------------------------------------ bounds
\* longest text passed to id_sus and SeeSus
MaxTextLen == 2
\* longest id list passed to cat_sus, label_sdg, label_target under SpecPure
MaxIds == 3
\* longest id list passed to them under Spec, where they interleave with edits
MaxArgIds == 1

\* ------------------------------------------------------------- static data
Alphabet == {"A", "b"}

T11 == <<"SDG1", "_", "1">>
T12 == <<"SDG1", "_", "2">>
T21 == <<"SDG2", "_", "1">>
TUnknown == <<"SDG9", "_", "9">>
G1 == <<"SDG1">>
G2 == <<"SDG2">>
GUnknown == <<"SDG9">>

Pa == << <<"a">> >>
Pab == << <<"a", "B">> >>
Pbb == << <<"b", "b">>, <<"A", "a">> >>
Patterns == {Pa, Pab, Pbb}

InitialKeys ==
  << [SDG_id |-> T11, SDG_keywords |-> Pbb, match_type |-> "direct"],
     [SDG_id |-> T11, SDG_keywords |-> Pa, match_type |-> "indirect"],
     [SDG_id |-> T12, SDG_keywords |-> Pab, match_type |-> "indirect"],
     [SDG_id |-> T21, SDG_keywords |-> Pbb, match_type |-> "direct"] >>

see_keys ==
  << <<T11, 1, 0, 0>>,
     <<T12, 0, 1, 1>>,
     <<T21, 0, 0, 0>>,
     <<T11, 1, 0, 0>> >>

goal_desc == << <<G1, "No poverty">>, <<G2, "Zero hunger">> >>

tar_desc == << <<T11, "desc 1.1">>, <<T12, "desc 1.2">>, <<T21, "desc 2.1">> >>

\* ------------------------------------------------------------------ inputs
SeqsUpTo(S, n) == UNION {[1..k -> S] : k \in 0..n}

Str(s) == [type |-> "str", val |-> s]
NotAString == [type |-> "int", val |-> <<>>]
Texts == {Str(s) : s \in SeqsUpTo(Alphabet, MaxTextLen)}
TextArgs == Texts \cup {NotAString}

TargetIds == {T11, T12, T21, TUnknown}
GoalIds == {G1, G2, GUnknown}
MatchTypeArgs == {"direct", "indirect", "both"}

\* ----------------------------------------------------------------- helpers
ToSet(s) == {s[i] : i \in DOMAIN s}

\* list(set(xs)): the duplicate-free lists over the elements of xs
list_set(xs) ==
  LET S == ToSet(xs)
  IN {l \in [1..Cardinality(S) -> S] : ToSet(l) = S}

\* A list up to the order of its elements: element |-> number of occurrences
Unordered(l) == [e \in ToSet(l) |-> Cardinality({i \in DOMAIN l : l[i] = e})]

isinstance_str(text) == text.type = "str"

Lower(c) == IF c = "A" THEN "a" ELSE IF c = "B" THEN "b" ELSE c

Occurs(lit, s) ==
  \E i \in 0..(Len(s) - Len(lit)) :
    \A j \in 1..Len(lit) : Lower(s[i + j]) = Lower(lit[j])

\* re.search(pattern, text, re.IGNORECASE) is not None
re_search(pattern, text) ==
  \E a \in DOMAIN pattern : Occurs(pattern[a], text.val)

\* sdg_id.split("_")[0]
split0(sdg_id) ==
  LET us == {i \in DOMAIN sdg_id : sdg_id[i] = "_"}
  IN IF us = {} THEN sdg_id
     ELSE SubSeq(sdg_id, 1, (CHOOSE i \in us : \A k \in us : i <= k) - 1)

NoValue == [kind |-> "none"]
Raise(e) == [err |-> e, val |-> NoValue]
Return(v) == [err |-> "none", val |-> v]

\* ------------------------------------------------------------------ id_sus
\* id_sus_loop with the goal recorded for direct matches only
RECURSIVE id_sus_loop_direct_goal(_, _, _, _, _, _)
id_sus_loop_direct_goal(keys, text, k, sdgs, targets, matches) ==
  IF k > Len(keys) THEN [sdgs |-> sdgs, targets |-> targets, matches |-> matches]
  ELSE LET item == keys[k]
       IN IF re_search(item.SDG_keywords, text)
          THEN id_sus_loop_direct_goal(keys, text, k + 1,
                 IF item.match_type = "direct" THEN Append(sdgs, split0(item.SDG_id))
                 ELSE sdgs,
                 Append(targets, item.SDG_id), Append(matches, item.match_type))
          ELSE id_sus_loop_direct_goal(keys, text, k + 1, sdgs, targets, matches)

\* id_sus_loop that skips the rules of a target it has already recorded
RECURSIVE id_sus_loop_short_circuit(_, _, _, _, _, _)
id_sus_loop_short_circuit(keys, text, k, sdgs, targets, matches) ==
  IF k > Len(keys) THEN [sdgs |-> sdgs, targets |-> targets, matches |-> matches]
  ELSE LET item == keys[k]
       IN IF item.SDG_id \notin ToSet(targets) /\ re_search(item.SDG_keywords, text)
          THEN id_sus_loop_short_circuit(keys, text, k + 1, Append(sdgs, split0(item.SDG_id)),
                 Append(targets, item.SDG_id), Append(matches, item.match_type))
          ELSE id_sus_loop_short_circuit(keys, text, k + 1, sdgs, targets, matches)

\* The loop of id_sus over keys[k..], keys being the catalog SDG_keys at the
\* time of the call: the three lists after the loop.
RECURSIVE id_sus_loop(_, _, _, _, _, _)
id_sus_loop(keys, text, k, sdgs, targets, matches) ==
  IF k > Len(keys) THEN [sdgs |-> sdgs, targets |-> targets, matches |-> matches]
  ELSE LET item == keys[k]
           sdg_id == item.SDG_id
           sdg_keywords == item.SDG_keywords
           match_type == item.match_type
       IN IF re_search(sdg_keywords, text)
          THEN id_sus_loop(keys, text, k + 1, Append(sdgs, split0(sdg_id)),
                           Append(targets, sdg_id), Append(matches, match_type))
          ELSE id_sus_loop(keys, text, k + 1, sdgs, targets, matches)

\* id_sus without the isinstance check: a non-string is scanned like ""
id_sus_unchecked(text) ==
  LET l == id_sus_loop(SDG_keys, text, 1, <<>>, <<>>, <<>>)
  IN {Return([kind |-> "tuple", sdgs |-> s, targets |-> t, matches |-> m]) :
        s \in list_set(l.sdgs), t \in list_set(l.targets), m \in list_set(l.matches)}

\* The outcomes of id_sus(text) on the catalog keys: it raises, or returns
\* (sdgs, targets, matches), each a list(set(...)) in some order.
id_sus_on(keys, text) ==
  IF ~isinstance_str(text) THEN {Raise("ValueError")}
  ELSE LET l == id_sus_loop(keys, text, 1, <<>>, <<>>, <<>>)
           sdgs == list_set(l.sdgs)
           targets == list_set(l.targets)
           matches == list_set(l.matches)
       IN {Return([kind |-> "tuple", sdgs |-> s, targets |-> t, matches |-> m]) :
             s \in sdgs, t \in targets, m \in matches}

\* id_sus(text), which reads the module's SDG_keys
id_sus(text) == id_sus_on(SDG_keys, text)

\* ----------------------------------------------------------------- cat_sus
\* cat_sus_inner with "=" where the code has "+="
RECURSIVE cat_sus_inner_assign(_, _, _, _)
cat_sus_inner_assign(target, item, i, see) ==
  IF i > Len(target) THEN see
  ELSE cat_sus_inner_assign(target, item, i + 1,
         IF target[i] = item[1]
         THEN [social_sustainability |-> item[2],
               environmental_sustainability |-> item[3],
               economic_sustainability |-> item[4]]
         ELSE see)

\* The inner loop over the positions of target for one row of see_keys.
RECURSIVE cat_sus_inner(_, _, _, _)
cat_sus_inner(target, item, i, see) ==
  IF i > Len(target) THEN see
  ELSE cat_sus_inner(target, item, i + 1,
         IF target[i] = item[1]
         THEN [social_sustainability |-> see.social_sustainability + item[2],
               environmental_sustainability |-> see.environmental_sustainability + item[3],
               economic_sustainability |-> see.economic_sustainability + item[4]]
         ELSE see)

RECURSIVE cat_sus_loop(_, _, _)
cat_sus_loop(target, r, see) ==
  IF r > Len(see_keys) THEN see
  ELSE cat_sus_loop(target, r + 1, cat_sus_inner(target, see_keys[r], 1, see))

\* cat_sus with ">= 0" where the code has "> 0"
cat_sus_nonneg(target) ==
  LET see == cat_sus_loop(target, 1,
               [social_sustainability |-> 0, environmental_sustainability |-> 0,
                economic_sustainability |-> 0])
  IN [social_sustainability |-> see.social_sustainability >= 0,
      environmental_sustainability |-> see.environmental_sustainability >= 0,
      economic_sustainability |-> see.economic_sustainability >= 0]

cat_sus(target) ==
  LET see == cat_sus_loop(target, 1,
               [social_sustainability |-> 0, environmental_sustainability |-> 0,
                economic_sustainability |-> 0])
  IN [social_sustainability |-> see.social_sustainability > 0,
      environmental_sustainability |-> see.environmental_sustainability > 0,
      economic_sustainability |-> see.economic_sustainability > 0]

\* ------------------------------------------------------ label_sdg, label_target
\* The nested loops shared by label_sdg and label_target: rows outermost,
\* positions of the input innermost.
RECURSIVE label_inner(_, _, _, _)
label_inner(ids, item, i, desc) ==
  IF i > Len(ids) THEN desc
  ELSE label_inner(ids, item, i + 1,
         IF ids[i] = item[1] THEN Append(desc, item[2]) ELSE desc)

RECURSIVE label_loop(_, _, _, _)
label_loop(table, ids, r, desc) ==
  IF r > Len(table) THEN desc
  ELSE label_loop(table, ids, r + 1, label_inner(ids, table[r], 1, desc))

label_sdg(sdg_id) == label_loop(goal_desc, sdg_id, 1, <<>>)

label_target(target_id) == label_loop(tar_desc, target_id, 1, <<>>)

\* ------------------------------------------------------------------- SeeSus
\* The outcomes of SeeSus(text): id_sus raises before any attribute is set,
\* or the object with its six attributes.  sdg_desc is computed from the list
\* sdg, target_desc and see from the list target, each in the order id_sus
\* returned it; the object keeps sdg, target and match, recorded up to order.
SeeSus_init(text) ==
  LET rs == id_sus(text)
  IN IF \E r \in rs : r.err # "none" THEN {r \in rs : r.err # "none"}
     ELSE LET sdgs == {r.val.sdgs : r \in rs}
              targets == {r.val.targets : r \in rs}
              matches == {r.val.matches : r \in rs}
              by_sdg == {[sdg |-> Unordered(s), sdg_desc |-> label_sdg(s)] : s \in sdgs}
              by_target == {[target |-> Unordered(t), target_desc |-> label_target(t),
                             see |-> cat_sus(t)] : t \in targets}
              by_match == {Unordered(m) : m \in matches}
          IN {Return([kind |-> "SeeSus",
                      sdg |-> a.sdg, target |-> b.target, match |-> m,
                      sdg_desc |-> a.sdg_desc, target_desc |-> b.target_desc,
                      see |-> b.see]) : a \in by_sdg, b \in by_target, m \in by_match}

\* ids = list(set([item["SDG_id"] for item in SDG_keys])), used for membership
known_ids == {SDG_keys[i].SDG_id : i \in DOMAIN SDG_keys}

NoOutput == [kind |-> "none"]

\* show_syntax: what it prints, or the error it raises
show_syntax(sdg_id) ==
  IF sdg_id \notin known_ids THEN [err |-> "ValueError", out |-> NoOutput]
  ELSE [err |-> "none",
        out |-> [kind |-> "syntax",
                 syntax |-> SelectSeq(SDG_keys, LAMBDA d : d.SDG_id = sdg_id)]]

\* edit_syntax without the check of match_type
edit_syntax_any_type(sdg_id, new_syntax, match_type) ==
  IF sdg_id \notin known_ids
  THEN [err |-> "ValueError", keys |-> SDG_keys, out |-> NoOutput]
  ELSE [err |-> "none",
        keys |-> [k \in DOMAIN SDG_keys |->
                    IF SDG_keys[k].SDG_id = sdg_id /\ SDG_keys[k].match_type = match_type
                    THEN [SDG_keys[k] EXCEPT !.SDG_keywords = new_syntax]
                    ELSE SDG_keys[k]],
        out |-> [kind |-> "updated", match_type |-> match_type, sdg_id |-> sdg_id]]

\* edit_syntax: the catalog after the call, what it prints, the error it raises
edit_syntax(sdg_id, new_syntax, match_type) ==
  IF sdg_id \notin known_ids
  THEN [err |-> "ValueError", keys |-> SDG_keys, out |-> NoOutput]
  ELSE IF match_type \notin {"direct", "indirect"}
  THEN [err |-> "ValueError", keys |-> SDG_keys, out |-> NoOutput]
  ELSE [err |-> "none",
        keys |-> [k \in DOMAIN SDG_keys |->
                    IF SDG_keys[k].SDG_id = sdg_id /\ SDG_keys[k].match_type = match_type
                    THEN [SDG_keys[k] EXCEPT !.SDG_keywords = new_syntax]
                    ELSE SDG_keys[k]],
        out |-> [kind |-> "updated", match_type |-> match_type, sdg_id |-> sdg_id]]

\* ----------------------------------------------------------------- actions
Init ==
  /\ SDG_keys = InitialKeys
  /\ call = [op |-> "init"]
  /\ err = "none"
  /\ ret = NoValue
  /\ out = NoOutput

\* What the caller of id_sus holds afterwards: the three lists up to order
Tuple(r) ==
  IF r.err # "none" THEN r
  ELSE Return([kind |-> "tuple", sdgs |-> Unordered(r.val.sdgs),
               targets |-> Unordered(r.val.targets),
               matches |-> Unordered(r.val.matches)])

\* The keywords of a rule, case folded
folded(pattern) ==
  [a \in DOMAIN pattern |-> [j \in DOMAIN pattern[a] |-> Lower(pattern[a][j])]]

\* Detect with id_sus storing the case-folded keywords back into each rule
DetectFoldingInPlace(text) ==
  \E r \in {Tuple(x) : x \in id_sus(text)} :
    /\ call' = [op |-> "id_sus", text |-> text]
    /\ err' = r.err
    /\ ret' = r.val
    /\ out' = NoOutput
    /\ SDG_keys' = [k \in DOMAIN SDG_keys |->
                      [SDG_keys[k] EXCEPT !.SDG_keywords = folded(@)]]

Detect(text) ==
  \E r \in {Tuple(x) : x \in id_sus(text)} :
    /\ call' = [op |-> "id_sus", text |-> text]
    /\ err' = r.err
    /\ ret' = r.val
    /\ out' = NoOutput
    /\ UNCHANGED SDG_keys

Aggregate(target) ==
  /\ call' = [op |-> "cat_sus", target |-> target]
  /\ err' = "none"
  /\ ret' = [kind |-> "see", see |-> cat_sus(target)]
  /\ out' = NoOutput
  /\ UNCHANGED SDG_keys

LabelSdg(sdg_id) ==
  /\ call' = [op |-> "label_sdg", ids |-> sdg_id]
  /\ err' = "none"
  /\ ret' = [kind |-> "desc", desc |-> label_sdg(sdg_id)]
  /\ out' = NoOutput
  /\ UNCHANGED SDG_keys

LabelTarget(target_id) ==
  /\ call' = [op |-> "label_target", ids |-> target_id]
  /\ err' = "none"
  /\ ret' = [kind |-> "desc", desc |-> label_target(target_id)]
  /\ out' = NoOutput
  /\ UNCHANGED SDG_keys

Classify(text) ==
  \E r \in SeeSus_init(text) :
    /\ call' = [op |-> "SeeSus", text |-> text]
    /\ err' = r.err
    /\ ret' = r.val
    /\ out' = NoOutput
    /\ UNCHANGED SDG_keys

ShowSyntax(sdg_id) ==
  LET r == show_syntax(sdg_id)
  IN /\ call' = [op |-> "show_syntax", sdg_id |-> sdg_id]
     /\ err' = r.err
     /\ ret' = NoValue
     /\ out' = r.out
     /\ UNCHANGED SDG_keys

EditSyntax(sdg_id, new_syntax, match_type) ==
  LET r == edit_syntax(sdg_id, new_syntax, match_type)
  IN /\ call' = [op |-> "edit_syntax", sdg_id |-> sdg_id, new_syntax |-> new_syntax,
                 match_type |-> match_type]
     /\ err' = r.err
     /\ ret' = NoValue
     /\ out' = r.out
     /\ SDG_keys' = r.keys

\* edit_syntax(sdg_id, new_syntax): match_type takes its default
EditSyntaxDefault(sdg_id, new_syntax) == EditSyntax(sdg_id, new_syntax, "indirect")

Next ==
  \/ \E text \in TextArgs : Detect(text)
  \/ \E text \in TextArgs : Classify(text)
  \/ \E sdg_id \in TargetIds : ShowSyntax(sdg_id)
  \/ \E sdg_id \in TargetIds, p \in Patterns, m \in MatchTypeArgs : EditSyntax(sdg_id, p, m)
  \/ \E sdg_id \in TargetIds, p \in Patterns : EditSyntaxDefault(sdg_id, p)
  \/ \E target \in SeqsUpTo(TargetIds, MaxArgIds) : Aggregate(target)
  \/ \E ids \in SeqsUpTo(GoalIds, MaxArgIds) : LabelSdg(ids)
  \/ \E ids \in SeqsUpTo(TargetIds, MaxArgIds) : LabelTarget(ids)

Spec == Init /\ [][Next]_vars

\* The functions that read only their argument and the static tables.
NextPure ==
  \/ \E target \in SeqsUpTo(TargetIds, MaxIds) : Aggregate(target)
  \/ \E ids \in SeqsUpTo(GoalIds, MaxIds) : LabelSdg(ids)
  \/ \E ids \in SeqsUpTo(TargetIds, MaxIds) : LabelTarget(ids)

SpecPure == Init /\ [][NextPure]_vars

\* =================================================================== claims
Dimensions == {"social_sustainability", "environmental_sustainability",
               "economic_sustainability"}

\* The rules of the catalog whose pattern matches text
MatchingRules(text) ==
  {k \in DOMAIN SDG_keys : re_search(SDG_keys[k].SDG_keywords, text)}

\* C1: whenever id_sus has returned, the goals it returned are exactly the
\* goal prefixes of the targets it returned, whatever edits came before.
C1_GoalsArePrefixesOfTargets ==
  (call.op = "id_sus" /\ err = "none") =>
    DOMAIN ret.sdgs = {split0(t) : t \in DOMAIN ret.targets}

\* C1 witness: after an edit, id_sus returned two targets of one goal and a
\* target of another goal.
C1_Witness ==
  /\ call.op = "id_sus" /\ err = "none"
  /\ SDG_keys # InitialKeys
  /\ DOMAIN ret.targets = {T11, T12, T21}
  /\ DOMAIN ret.sdgs = {G1, G2}

\* C2: when no rule of the catalog matches the text, id_sus returns three
\* empty lists without raising, and SeeSus yields empty description lists and
\* all three dimensions false.
C2_NoMatchGivesEmpty ==
  (/\ call.op \in {"id_sus", "SeeSus"}
   /\ isinstance_str(call.text)
   /\ MatchingRules(call.text) = {}) =>
    /\ err = "none"
    /\ call.op = "id_sus" =>
         /\ DOMAIN ret.sdgs = {}
         /\ DOMAIN ret.targets = {}
         /\ DOMAIN ret.matches = {}
    /\ call.op = "SeeSus" =>
         /\ DOMAIN ret.sdg = {} /\ DOMAIN ret.target = {} /\ DOMAIN ret.match = {}
         /\ ret.sdg_desc = <<>>
         /\ ret.target_desc = <<>>
         /\ \A X \in Dimensions : ret.see[X] = FALSE

\* C2 witness: SeeSus was built from a non-empty text that no rule matches.
C2_Witness ==
  /\ call.op = "SeeSus" /\ err = "none"
  /\ isinstance_str(call.text) /\ Len(call.text.val) > 0
  /\ MatchingRules(call.text) = {}

\* The column of a see_keys row that holds the flag of dimension X
Column(X) ==
  IF X = "social_sustainability" THEN 2
  ELSE IF X = "environmental_sustainability" THEN 3 ELSE 4

\* C3: cat_sus gives dimension X true iff some row of see_keys whose id is in
\* the input has a nonzero X flag; ids without a row, repeated ids and
\* repeated rows change nothing, and it never raises.
C3_DimensionIffSomeRowFlag ==
  call.op = "cat_sus" =>
    /\ err = "none"
    /\ \A X \in Dimensions :
         ret.see[X] = (\E r \in DOMAIN see_keys :
                         /\ see_keys[r][1] \in ToSet(call.target)
                         /\ see_keys[r][Column(X)] # 0)

\* C3 witness: cat_sus was given an id without a row and a repeated id that
\* has two rows, and answered social only.
C3_Witness ==
  /\ call.op = "cat_sus"
  /\ Len(call.target) = 3
  /\ ToSet(call.target) = {TUnknown, T11}
  /\ ret.see.social_sustainability
  /\ ~ret.see.environmental_sustainability
  /\ ~ret.see.economic_sustainability

\* C4: after edit_syntax(t, p, m) with a known t and m direct or indirect has
\* completed without error, show_syntax(t) shows a rule of t with pattern p and
\* id_sus on every text that p matches returns t among the targets.
C4_EditRoundTrip ==
  (/\ call.op = "edit_syntax" /\ err = "none"
   /\ call.sdg_id \in known_ids
   /\ call.match_type \in {"direct", "indirect"}) =>
    /\ \E i \in DOMAIN show_syntax(call.sdg_id).out.syntax :
         show_syntax(call.sdg_id).out.syntax[i].SDG_keywords = call.new_syntax
    /\ \A text \in Texts :
         re_search(call.new_syntax, text) =>
           \A r \in id_sus(text) : call.sdg_id \in ToSet(r.val.targets)

\* C5: edit_syntax with an unknown id or a match_type that is neither direct
\* nor indirect, and show_syntax with an unknown id, raise and leave the
\* catalog as it was.
C5_InvalidCallRaisesAndKeepsCatalog ==
  [][((/\ call'.op = "edit_syntax"
       /\ (call'.sdg_id \notin known_ids
           \/ call'.match_type \notin {"direct", "indirect"}))
      \/ (call'.op = "show_syntax" /\ call'.sdg_id \notin known_ids))
     => (err' = "ValueError" /\ SDG_keys' = SDG_keys /\ out' = NoOutput)]_vars

\* C5 witness: on an edited catalog, edit_syntax raised for a known id with a
\* match_type that is neither direct nor indirect.
C5_Witness ==
  /\ call.op = "edit_syntax" /\ err = "ValueError"
  /\ call.sdg_id \in known_ids
  /\ call.match_type = "both"
  /\ SDG_keys # InitialKeys

\* An id_sus result, each list as the set of its elements
AsSets(v) ==
  [sdgs |-> ToSet(v.sdgs), targets |-> ToSet(v.targets), matches |-> ToSet(v.matches)]

\* C6: a call of id_sus, cat_sus, label_sdg, label_target, SeeSus or
\* show_syntax leaves the catalog as it was, and a second id_sus call on the
\* text of an id_sus call that has just returned gives the same sets of
\* goals, targets and match types; so two id_sus calls on one text with no
\* edit_syntax between them agree.
C6_ReadersKeepCatalogAndAnswers ==
  [][call'.op \in {"id_sus", "cat_sus", "label_sdg", "label_target", "SeeSus",
                   "show_syntax"}
     => /\ SDG_keys' = SDG_keys
        /\ (call'.op = "id_sus" /\ err' = "none") =>
             \A text \in Texts :
               text = call'.text =>
                 \A r \in id_sus_on(SDG_keys', text) :
                   /\ r.err = "none"
                   /\ AsSets(r.val) = [sdgs |-> DOMAIN ret'.sdgs,
                                       targets |-> DOMAIN ret'.targets,
                                       matches |-> DOMAIN ret'.matches]]_vars

\* C6 witness: on an edited catalog id_sus returned two targets, lists whose
\* order is not fixed.
C6_Witness ==
  /\ call.op = "id_sus" /\ err = "none"
  /\ SDG_keys # InitialKeys
  /\ Cardinality(DOMAIN ret.targets) = 2
  /\ Cardinality(id_sus(call.text)) > 1

\* C7 as claimed: id_sus and SeeSus given a non-string fail with TypeError and
\* yield nothing.
C7_NonStringRaisesTypeError ==
  (call.op \in {"id_sus", "SeeSus"} /\ ~isinstance_str(call.text)) =>
    (err = "TypeError" /\ ret = NoValue)

\* C7 as amended: id_sus and SeeSus given a non-string fail with ValueError and
\* yield nothing: no tuple, and no object with any attribute set.
C7_NonStringRaisesValueError ==
  (call.op \in {"id_sus", "SeeSus"} /\ ~isinstance_str(call.text)) =>
    (err = "ValueError" /\ ret = NoValue)

\* C7 witness: SeeSus was called with a non-string on an edited catalog.
C7_Witness ==
  /\ call.op = "SeeSus" /\ ~isinstance_str(call.text)
  /\ err # "none"
  /\ SDG_keys # InitialKeys

\* C8: the targets id_sus returns are the ids of the matching rules, each
\* once, and the match types it returns are the match types of the matching
\* rules, each once.
C8_EveryMatchingRuleCounts ==
  (call.op = "id_sus" /\ err = "none") =>
    /\ DOMAIN ret.targets = {SDG_keys[k].SDG_id : k \in MatchingRules(call.text)}
    /\ DOMAIN ret.matches = {SDG_keys[k].match_type : k \in MatchingRules(call.text)}
    /\ \A t \in DOMAIN ret.targets : ret.targets[t] = 1
    /\ \A m \in DOMAIN ret.matches : ret.matches[m] = 1

\* C8 witness: the direct rule and the indirect rule of SDG1_1 both matched
\* and no other rule did; SDG1_1 is returned once with both match types.
C8_Witness ==
  /\ call.op = "id_sus" /\ err = "none"
  /\ MatchingRules(call.text) = {1, 2}
  /\ DOMAIN ret.targets = {T11} /\ ret.targets[T11] = 1
  /\ DOMAIN ret.matches = {"direct", "indirect"}

\* The rules of the catalog with the pair (sdg_id, match_type)
RulesOf(sdg_id, match_type) ==
  {k \in DOMAIN SDG_keys :
     SDG_keys[k].SDG_id = sdg_id /\ SDG_keys[k].match_type = match_type}

\* C9: a valid edit_syntax(t, p, m) sets the pattern of every rule with the
\* pair (t, m) to p and changes nothing else of the catalog; when no rule has
\* the pair the catalog is unchanged, nothing is raised and no update is
\* reported.
C9_EditSetsPairOnlyAndMissIsSilent ==
  [][(/\ call'.op = "edit_syntax"
      /\ call'.sdg_id \in known_ids
      /\ call'.match_type \in {"direct", "indirect"})
     => /\ err' = "none"
        /\ Len(SDG_keys') = Len(SDG_keys)
        /\ \A k \in DOMAIN SDG_keys :
             /\ SDG_keys'[k].SDG_id = SDG_keys[k].SDG_id
             /\ SDG_keys'[k].match_type = SDG_keys[k].match_type
             /\ SDG_keys'[k].SDG_keywords =
                  IF k \in RulesOf(call'.sdg_id, call'.match_type)
                  THEN call'.new_syntax ELSE SDG_keys[k].SDG_keywords
        /\ RulesOf(call'.sdg_id, call'.match_type) = {} =>
             (SDG_keys' = SDG_keys /\ out' = NoOutput)]_vars

\* The descriptions of the rows of table with the given id, in table order
RECURSIVE RowsOf(_, _, _)
RowsOf(table, id, r) ==
  IF r > Len(table) THEN <<>>
  ELSE (IF table[r][1] = id THEN <<table[r][2]>> ELSE <<>>) \o RowsOf(table, id, r + 1)

\* One description per (row, position) with equal ids, in the order of the input
RECURSIVE InInputOrder(_, _, _)
InInputOrder(table, ids, i) ==
  IF i > Len(ids) THEN <<>>
  ELSE RowsOf(table, ids[i], 1) \o InInputOrder(table, ids, i + 1)

\* C10: label_sdg and label_target return one description per pair of a table
\* row and an input position with equal ids, ids without a row adding nothing,
\* in the order the ids were given, and never raise.
C10_LabelsFollowInputOrder ==
  /\ call.op = "label_sdg" =>
       (err = "none" /\ ret.desc = InInputOrder(goal_desc, call.ids, 1))
  /\ call.op = "label_target" =>
       (err = "none" /\ ret.desc = InInputOrder(tar_desc, call.ids, 1))

====
